---- MODULE Spec2Model ----
(***************************************************************************)
(* Mueller-matrix utilities of include/mitsuba/render/mueller.h.           *)
(*                                                                         *)
(* Every function of the header is pure.  Each one is an operator here,    *)
(* computed the way the header computes it, over exact arithmetic:         *)
(*   - a Float is a fraction <<n, d>> in lowest terms with d > 0;          *)
(*     d = 0 encodes the non-finite IEEE values: <<1,0>> = +inf,           *)
(*     <<-1,0>> = -inf, <<0,0>> = NaN (the indeterminate 0/0); the two     *)
(*     IEEE zeros, which compare equal, are the one fraction <<0,1>>;      *)
(*   - an angle is the direction <<x, y>> of the point it marks on the     *)
(*     circle (theta = atan2(y, x)), in lowest terms, so that angles are   *)
(*     exact and equal modulo 2*pi;                                        *)
(*   - a Vector3 is an integer triple standing for its direction; the      *)
(*     unit vector it denotes is the triple divided by its length.         *)
(* The state machines draw the arguments from bounded grids and apply the  *)
(* functions; the state records the call and what it returned.             *)
(***************************************************************************)
EXTENDS Integers, Sequences, FiniteSets

VARIABLES
    M,            \* the Mueller matrix handed to the call
    cos_theta_i,  \* the incidence cosine handed to the interaction builders
    eta,          \* the relative refractive index handed to them
    ext,          \* what the external Fresnel collaborators return for them
    op,           \* the function that was called ("none" before the call)
    args,         \* its remaining arguments
    result        \* what it returned

vars == <<M, cos_theta_i, eta, ext, op, args, result>>

(* ------------------------------ bounds -------------------------------- *)

\* Largest coordinate magnitude of a basis direction / angle direction.
MaxCoord == 2

\* Largest magnitude of an entry of the dense test matrices.
MaxEntry == 2

(* ------------------------------ Float --------------------------------- *)

AbsInt(n) == IF n < 0 THEN -n ELSE n

SignInt(n) == IF n < 0 THEN -1 ELSE IF n > 0 THEN 1 ELSE 0

RECURSIVE GCD(_, _)
GCD(a, b) == IF b = 0 THEN a ELSE GCD(b, a % b)

\* The fraction n/d in lowest terms; a zero denominator gives +-inf or NaN.
Frac(n, d) ==
    IF d = 0 THEN <<SignInt(n), 0>>
    ELSE LET g == GCD(AbsInt(n), AbsInt(d))
             sg == IF d < 0 THEN -1 ELSE 1
         IN  <<(sg * n) \div g, (sg * d) \div g>>

R(n) == <<n, 1>>

NaN == <<0, 0>>

Inf == <<1, 0>>

IsNaN(a) == a = NaN

IsFinite(a) == a[2] # 0

Neg(a) == <<-a[1], a[2]>>

Add(a, b) ==
    IF a[2] = 0 /\ b[2] = 0 THEN (IF a = b THEN a ELSE NaN)
    ELSE IF a[2] = 0 THEN a
    ELSE IF b[2] = 0 THEN b
    ELSE IF a[1] = 0 THEN b
    ELSE IF b[1] = 0 THEN a
    ELSE LET g == GCD(a[2], b[2])
         IN  Frac(a[1] * (b[2] \div g) + b[1] * (a[2] \div g), (a[2] \div g) * b[2])

Sub(a, b) == Add(a, Neg(b))

Mul(a, b) ==
    IF a[2] = 0 \/ b[2] = 0 THEN <<SignInt(a[1]) * SignInt(b[1]), 0>>
    ELSE IF a[1] = 0 \/ b[1] = 0 THEN <<0, 1>>
    ELSE LET g1 == GCD(AbsInt(a[1]), b[2])
             g2 == GCD(AbsInt(b[1]), a[2])
         IN  <<(a[1] \div g1) * (b[1] \div g2), (a[2] \div g2) * (b[2] \div g1)>>

Rcp(a) == Frac(a[2], a[1])

Div(a, b) == Mul(a, Rcp(b))

AbsF(a) == <<AbsInt(a[1]), a[2]>>

\* IEEE comparisons: false whenever a NaN is involved.
EqF(a, b) == ~IsNaN(a) /\ ~IsNaN(b) /\ a = b

GtF(a, b) ==
    /\ ~IsNaN(a) /\ ~IsNaN(b) /\ a # b
    /\ IF a[2] = 0 THEN a[1] = 1
       ELSE IF b[2] = 0 THEN b[1] = -1
       ELSE a[1] * b[2] > b[1] * a[2]

LtF(a, b) == GtF(b, a)

\* Newton's iteration down from k >= sqrt(n) to floor(sqrt(n)).
RECURSIVE Newton(_, _)
Newton(n, k) ==
    LET next == (k + n \div k) \div 2
    IN  IF next >= k THEN k ELSE Newton(n, next)

\* Exact integer square root; the grids produce perfect squares only.
ISqrt(n) == IF n = 0 THEN 0 ELSE CHOOSE k \in {Newton(n, n)} : k * k = n

SqrtF(a) ==
    IF IsNaN(a) \/ a[1] < 0 THEN NaN
    ELSE IF a[2] = 0 THEN a
    ELSE <<ISqrt(a[1]), ISqrt(a[2])>>

Sqr(a) == Mul(a, a)

(* ----------------------------- matrices ------------------------------- *)

Idx == 1..4

\* A 4x4 matrix is a tuple of four rows, each a tuple of four Floats.
IntRow(r) == <<R(r[1]), R(r[2]), R(r[3]), R(r[4])>>

\* MuellerMatrix<Float>(m00, m01, ..., m33) from integer literals, row by row.
Mat(rows) == <<IntRow(rows[1]), IntRow(rows[2]), IntRow(rows[3]), IntRow(rows[4])>>

\* Entry j of (row r) * B.
RowTimesCol(r, B, j) ==
    Add(Add(Mul(r[1], B[1][j]), Mul(r[2], B[2][j])),
        Add(Mul(r[3], B[3][j]), Mul(r[4], B[4][j])))

RowTimes(r, B) ==
    <<RowTimesCol(r, B, 1), RowTimesCol(r, B, 2), RowTimesCol(r, B, 3), RowTimesCol(r, B, 4)>>

\* The matrix product A * B.
MatMul(A, B) == <<RowTimes(A[1], B), RowTimes(A[2], B), RowTimes(A[3], B), RowTimes(A[4], B)>>

Column(A, j) == <<A[1][j], A[2][j], A[3][j], A[4][j]>>

transpose(A) == <<Column(A, 1), Column(A, 2), Column(A, 3), Column(A, 4)>>

Identity == Mat(<<<<1,0,0,0>>, <<0,1,0,0>>, <<0,0,1,0>>, <<0,0,0,1>>>>)

\* A Stokes vector: a Mueller matrix with only its first column populated.
Stokes(v) ==
    <<<<v[1], R(0), R(0), R(0)>>, <<v[2], R(0), R(0), R(0)>>,
      <<v[3], R(0), R(0), R(0)>>, <<v[4], R(0), R(0), R(0)>>>>

StokesInt(a, b, c, d) == Stokes(<<R(a), R(b), R(c), R(d)>>)

(* ------------------------------ angles -------------------------------- *)

\* The angle atan2(y, x) of a non-zero direction, in lowest terms.
Ang(x, y) == LET g == GCD(AbsInt(x), AbsInt(y)) IN <<x \div g, y \div g>>

\* theta * -1
NegAng(t) == <<t[1], -t[2]>>

\* 2 * theta
TwiceAng(t) == Ang(t[1] * t[1] - t[2] * t[2], 2 * t[1] * t[2])

\* ek::sincos: <<sin, cos>> of an angle.
sincos(t) ==
    LET h == ISqrt(t[1] * t[1] + t[2] * t[2])
    IN  <<Frac(t[2], h), Frac(t[1], h)>>

(* ---------------------- mueller.h: the elements ----------------------- *)

\* Mutant: the signs of s are exchanged (the 2x2 block is transposed).
linear_retarder_transposed(phase) ==
    LET sc == sincos(phase)
        s == sc[1]
        c == sc[2]
    IN  <<<<R(1), R(0), R(0), R(0)>>,
          <<R(0), R(1), R(0), R(0)>>,
          <<R(0), R(0), c,      s>>,
          <<R(0), R(0), Neg(s), c>>>>

linear_retarder(phase) ==
    LET sc == sincos(phase)
        s == sc[1]
        c == sc[2]
    IN  <<<<R(1), R(0), R(0), R(0)>>,
          <<R(0), R(1), R(0), R(0)>>,
          <<R(0), R(0), c, Neg(s)>>,
          <<R(0), R(0), s, c>>>>

\* Mutant: the rotation runs clockwise (the signs of s exchanged).
rotator_clockwise(theta) ==
    LET sc == sincos(TwiceAng(theta))
        s == sc[1]
        c == sc[2]
    IN  <<<<R(1), R(0), R(0), R(0)>>,
          <<R(0), c, Neg(s), R(0)>>,
          <<R(0), s, c,      R(0)>>,
          <<R(0), R(0), R(0), R(1)>>>>

\* Mutant: the minus sign of row 2 is lost.
rotator_unsigned(theta) ==
    LET sc == sincos(TwiceAng(theta))
        s == sc[1]
        c == sc[2]
    IN  <<<<R(1), R(0), R(0), R(0)>>,
          <<R(0), c, s, R(0)>>,
          <<R(0), s, c, R(0)>>,
          <<R(0), R(0), R(0), R(1)>>>>

\* Mutant: the pair returned by sincos is bound as (c, s).
rotator_swapped(theta) ==
    LET sc == sincos(TwiceAng(theta))
        s == sc[2]
        c == sc[1]
    IN  <<<<R(1), R(0), R(0), R(0)>>,
          <<R(0), c,    s,    R(0)>>,
          <<R(0), Neg(s), c,  R(0)>>,
          <<R(0), R(0), R(0), R(1)>>>>

rotator(theta) ==
    LET sc == sincos(TwiceAng(theta))
        s == sc[1]
        c == sc[2]
    IN  <<<<R(1), R(0), R(0), R(0)>>,
          <<R(0), c,    s,    R(0)>>,
          <<R(0), Neg(s), c,  R(0)>>,
          <<R(0), R(0), R(0), R(1)>>>>

rotated_element(theta, A) ==
    LET Rm == rotator(theta)
        Rt == transpose(Rm)
    IN  MatMul(MatMul(Rt, A), Rm)

\* Mutant: the diagonal matrix multiplies from the right.
reverse_right(A) ==
    MatMul(A, Mat(<<<<1,0,0,0>>, <<0,1,0,0>>, <<0,0,-1,0>>, <<0,0,0,-1>>>>))

reverse(A) ==
    MatMul(Mat(<<<<1,0,0,0>>, <<0,1,0,0>>, <<0,0,-1,0>>, <<0,0,0,-1>>>>), A)

(* ------------------------- complex amplitudes ------------------------- *)

\* ek::Complex<Float>: <<re, im>>.
real(z) == z[1]

CSqr(z) == <<Sub(Sqr(z[1]), Sqr(z[2])), Mul(R(2), Mul(z[1], z[2]))>>

CAbs(z) == SqrtF(Add(Sqr(z[1]), Sqr(z[2])))

(* ------------------- the external Fresnel collaborators --------------- *)

\* fresnel_polarized(cos_theta_i, eta): <<a_s, a_p, cos_theta_t, eta_it, eta_ti>>,
\* whatever the collaborator returns for this call.
fresnel_polarized(c, e) ==
    <<ext.a_s, ext.a_p, ext.cos_theta_t, ext.eta_it, ext.eta_ti>>

\* sincos_arg_diff(a_s, a_p): <<sin_delta, cos_delta>>, likewise.
sincos_arg_diff(a, b) == <<ext.sin_delta, ext.cos_delta>>

(* ------------------ mueller.h: the interaction builders --------------- *)

Half == Frac(1, 2)

\* 1e-8f
Threshold == Frac(1, 100000000)

select(mask, a, b) == IF mask THEN a ELSE b

\* Mutant: the phase terms are not masked where c = 0.
specular_reflection_unmasked(c_i, e) ==
    LET fr == fresnel_polarized(c_i, e)
        a_s == fr[1]
        a_p == fr[2]
        sd == sincos_arg_diff(a_s, a_p)
        r_s == CAbs(CSqr(a_s))
        r_p == CAbs(CSqr(a_p))
        a == Mul(Half, Add(r_s, r_p))
        b == Mul(Half, Sub(r_s, r_p))
        c == SqrtF(Mul(r_s, r_p))
        sin_delta == sd[1]
        cos_delta == sd[2]
    IN  <<<<a, b, R(0), R(0)>>,
          <<b, a, R(0), R(0)>>,
          <<R(0), R(0), Mul(c, cos_delta), Mul(c, sin_delta)>>,
          <<R(0), R(0), Mul(Neg(c), sin_delta), Mul(c, cos_delta)>>>>

\* Mutant: the reflectances are the amplitudes' magnitudes, not their squares.
specular_reflection_unsquared(c_i, e) ==
    LET fr == fresnel_polarized(c_i, e)
        a_s == fr[1]
        a_p == fr[2]
        sd == sincos_arg_diff(a_s, a_p)
        r_s == CAbs(a_s)
        r_p == CAbs(a_p)
        a == Mul(Half, Add(r_s, r_p))
        b == Mul(Half, Sub(r_s, r_p))
        c == SqrtF(Mul(Sqr(r_s), Sqr(r_p)))
        sin_delta == IF EqF(c, R(0)) THEN R(0) ELSE sd[1]
        cos_delta == IF EqF(c, R(0)) THEN R(0) ELSE sd[2]
    IN  <<<<a, b, R(0), R(0)>>,
          <<b, a, R(0), R(0)>>,
          <<R(0), R(0), Mul(c, cos_delta), Mul(c, sin_delta)>>,
          <<R(0), R(0), Mul(Neg(c), sin_delta), Mul(c, cos_delta)>>>>

specular_reflection(c_i, e) ==
    LET fr == fresnel_polarized(c_i, e)
        a_s == fr[1]
        a_p == fr[2]
        sd == sincos_arg_diff(a_s, a_p)
        r_s == CAbs(CSqr(a_s))
        r_p == CAbs(CSqr(a_p))
        a == Mul(Half, Add(r_s, r_p))
        b == Mul(Half, Sub(r_s, r_p))
        c == SqrtF(Mul(r_s, r_p))
        sin_delta == IF EqF(c, R(0)) THEN R(0) ELSE sd[1]
        cos_delta == IF EqF(c, R(0)) THEN R(0) ELSE sd[2]
    IN  <<<<a, b, R(0), R(0)>>,
          <<b, a, R(0), R(0)>>,
          <<R(0), R(0), Mul(c, cos_delta), Mul(c, sin_delta)>>,
          <<R(0), R(0), Mul(Neg(c), sin_delta), Mul(c, cos_delta)>>>>

\* Mutant: the quotient is taken whatever cos_theta_i is.
conversion_factor_unguarded(c_i, cos_theta_t, eta_it) ==
    Mul(Neg(eta_it), Div(cos_theta_t, c_i))

\* The unit conversion factor of specular_transmission.
conversion_factor(c_i, cos_theta_t, eta_it) ==
    Mul(Neg(eta_it),
        select(GtF(AbsF(c_i), Threshold), Div(cos_theta_t, c_i), R(0)))

specular_transmission(c_i, e) ==
    LET fr == fresnel_polarized(c_i, e)
        a_s == fr[1]
        a_p == fr[2]
        factor == conversion_factor(c_i, fr[3], fr[4])
        a_s_r == Add(real(a_s), R(1))
        a_p_r == Mul(Sub(R(1), real(a_p)), fr[5])
        t_s == Sqr(a_s_r)
        t_p == Sqr(a_p_r)
        a == Mul(Mul(Half, factor), Add(t_s, t_p))
        b == Mul(Mul(Half, factor), Sub(t_s, t_p))
        c == Mul(factor, SqrtF(Mul(t_s, t_p)))
    IN  <<<<a, b, R(0), R(0)>>,
          <<b, a, R(0), R(0)>>,
          <<R(0), R(0), c, R(0)>>,
          <<R(0), R(0), R(0), c>>>>

(* ------------------------------ grids --------------------------------- *)

Coords == (-MaxCoord)..MaxCoord

\* Directions in a plane: the primitive integer pairs of the grid.
Dirs == {d \in Coords \X Coords : d # <<0, 0>> /\ Ang(d[1], d[2]) = d}

Angles == Dirs

\* Phase differences: the doubles of the grid's angles, whose sine and cosine
\* are rational (0, +-90 and 180 degrees, and oblique ones such as (3, 4)).
Phases == {TwiceAng(t) : t \in Angles}

Entries == (-MaxEntry)..MaxEntry

\* E(i, j, v): v at (i, j), zero elsewhere.
E(i, j, v) ==
    [a \in Idx |-> [b \in Idx |-> IF a = i /\ b = j THEN R(v) ELSE R(0)]]

\* A dense matrix: no symmetry, no zero row or column, entries of both signs.
Dense(p, q) ==
    [i \in Idx |-> [j \in Idx |->
        Frac(p * (4 * (i - 1) + j) + q * (i - j) * (i - j) - 7, 1 + ((i + j) % 2))]]

Matrices ==
    {E(i, j, 1) : i \in Idx, j \in Idx}
        \cup {Dense(p, q) : p \in 1..MaxEntry, q \in Entries}
        \cup {Identity}

(* ------------------------------ vectors ------------------------------- *)

dot(a, b) == a[1] * b[1] + a[2] * b[2] + a[3] * b[3]

cross(a, b) ==
    <<a[2] * b[3] - a[3] * b[2], a[3] * b[1] - a[1] * b[3], a[1] * b[2] - a[2] * b[1]>>

\* ek::normalize: the unit vector of v's direction, held as the direction's
\* primitive triple.
normalize(v) ==
    LET g == GCD(GCD(AbsInt(v[1]), AbsInt(v[2])), AbsInt(v[3]))
    IN  <<v[1] \div g, v[2] \div g, v[3] \div g>>

\* The angle in [0, pi] between two unit vectors: cos ~ a.b, sin ~ |a x b|.
unit_angle(a, b) ==
    LET n == cross(a, b)
    IN  Ang(dot(a, b), ISqrt(dot(n, n)))

(* -------------------- mueller.h: basis realignment -------------------- *)

\* Mutant: the angle is negated for a positive triple product.
rotate_stokes_basis_flipped(forward, basis_current, basis_target) ==
    LET theta0 == unit_angle(normalize(basis_current), normalize(basis_target))
        theta == IF dot(forward, cross(basis_current, basis_target)) > 0
                 THEN NegAng(theta0) ELSE theta0
    IN  rotator(theta)

\* Mutant: the angle is never negated (the masked assignment is dropped).
rotate_stokes_basis_unsigned(forward, basis_current, basis_target) ==
    LET theta0 == unit_angle(normalize(basis_current), normalize(basis_target))
    IN  rotator(theta0)

rotate_stokes_basis(forward, basis_current, basis_target) ==
    LET theta0 == unit_angle(normalize(basis_current), normalize(basis_target))
        theta == IF dot(forward, cross(basis_current, basis_target)) < 0
                 THEN NegAng(theta0) ELSE theta0
    IN  rotator(theta)

\* Mutant: R_in is not transposed.
rotate_mueller_basis_untransposed(A, in_forward, in_basis_current, in_basis_target, out_forward, out_basis_current, out_basis_target) ==
    LET R_in == rotate_stokes_basis(in_forward, in_basis_current, in_basis_target)
        R_out == rotate_stokes_basis(out_forward, out_basis_current, out_basis_target)
    IN  MatMul(MatMul(R_out, A), R_in)

rotate_mueller_basis(A, in_forward, in_basis_current, in_basis_target, out_forward, out_basis_current, out_basis_target) ==
    LET R_in == rotate_stokes_basis(in_forward, in_basis_current, in_basis_target)
        R_out == rotate_stokes_basis(out_forward, out_basis_current, out_basis_target)
    IN  MatMul(MatMul(R_out, A), transpose(R_in))

\* Mutant: the transpose is on the wrong side.
rotate_mueller_basis_collinear_swapped(A, forward, basis_current, basis_target) ==
    LET Rm == rotate_stokes_basis(forward, basis_current, basis_target)
    IN  MatMul(MatMul(transpose(Rm), A), Rm)

rotate_mueller_basis_collinear(A, forward, basis_current, basis_target) ==
    LET Rm == rotate_stokes_basis(forward, basis_current, basis_target)
    IN  MatMul(MatMul(Rm, A), transpose(Rm))

(* --------------------------- vector grids ----------------------------- *)

\* Propagation directions: the six axis directions.
Axes == {<<1,0,0>>, <<-1,0,0>>, <<0,1,0>>, <<0,-1,0>>, <<0,0,1>>, <<0,0,-1>>}

\* The unit bases orthogonal to w (one triple per direction of the grid).
Bases(w) ==
    {v \in Coords \X Coords \X Coords :
        v # <<0,0,0>> /\ dot(w, v) = 0 /\ normalize(v) = v}

\* The bases orthogonal to w in the closed first quadrant of the 1-grid.
QuadrantBases(w) ==
    {v \in Bases(w) : \A k \in 1..3 : v[k] \in {0, 1}}

\* The diagonal one among them.
DiagonalBases(w) ==
    {v \in QuadrantBases(w) : dot(v, v) = 2}

InForwards == {<<0,0,1>>, <<0,0,-1>>}

OutForwards == {<<1,0,0>>, <<0,-1,0>>}

BasisMatrices ==
    {Dense(MaxEntry, -1), Dense(1, MaxEntry)}

(* --------------------------- Fresnel grids ---------------------------- *)

\* Incidence cosines: normal, oblique, from inside, grazing, and around 1e-8.
Cosines ==
    {R(1), R(-1), Frac(1, 2), Frac(-3, 5), R(0),
     Frac(1, 200000000), Frac(-1, 200000000), Frac(1, 100000000), Frac(1, 50000000)}

Etas == {Frac(3, 2), Frac(2, 3), R(1)}

\* Reflection amplitudes: absent, weak, total, real and complex.
Amplitudes ==
    {<<R(0), R(0)>>, <<Frac(1, 5), R(0)>>, <<Frac(-1, 5), R(0)>>, <<R(-1), R(0)>>,
     <<Frac(3, 25), Frac(4, 25)>>, <<Frac(-3, 5), Frac(4, 5)>>}

\* <<sin_delta, cos_delta>>: in phase, out of phase, oblique, indeterminate.
PhaseTerms ==
    {<<R(0), R(1)>>, <<R(-1), R(0)>>, <<Frac(4, 5), Frac(-3, 5)>>, <<NaN, NaN>>}

TransmittedCosines == {R(-1), Frac(-4, 5), Frac(3, 5)}

\* What the collaborators may return for (c, e): the index ratios are e and
\* 1/e one way or the other, and at normal incidence both amplitudes have the
\* magnitude |e - 1| / (e + 1).
ExternalReturns(c, e) ==
    {x \in [a_s : Amplitudes, a_p : Amplitudes, cos_theta_t : TransmittedCosines,
            eta_it : {e, Rcp(e)}, eta_ti : {e, Rcp(e)},
            sin_delta : {pt[1] : pt \in PhaseTerms},
            cos_delta : {pt[2] : pt \in PhaseTerms}] :
        /\ <<x.sin_delta, x.cos_delta>> \in PhaseTerms
        /\ x.eta_ti = Rcp(x.eta_it)
        /\ c = R(1) =>
              /\ CAbs(x.a_s) = AbsF(Div(Sub(e, R(1)), Add(e, R(1))))
              /\ CAbs(x.a_p) = AbsF(Div(Sub(e, R(1)), Add(e, R(1))))}

(* --------------------------- state machine ---------------------------- *)

InitElem ==
    /\ M \in Matrices
    /\ cos_theta_i = R(1)
    /\ eta = R(1)
    /\ ext = <<>>
    /\ op = "none"
    /\ args = <<>>
    /\ result = <<>>

Rotator ==
    /\ op = "none"
    /\ \E theta \in Angles :
        /\ op' = "rotator"
        /\ args' = <<theta>>
        /\ result' = rotator(theta)
        /\ UNCHANGED <<M, cos_theta_i, eta, ext>>

RotatedElement ==
    /\ op = "none"
    /\ \E theta \in Angles :
        /\ op' = "rotated_element"
        /\ args' = <<theta>>
        /\ result' = rotated_element(theta, M)
        /\ UNCHANGED <<M, cos_theta_i, eta, ext>>

Reverse ==
    /\ op = "none"
    /\ op' = "reverse"
    /\ args' = <<>>
    /\ result' = reverse(M)
    /\ UNCHANGED <<M, cos_theta_i, eta, ext>>

LinearRetarder ==
    /\ op = "none"
    /\ \E phase \in Phases :
        /\ op' = "linear_retarder"
        /\ args' = <<phase>>
        /\ result' = linear_retarder(phase)
        /\ UNCHANGED <<M, cos_theta_i, eta, ext>>

NextElem == Rotator \/ RotatedElement \/ Reverse \/ LinearRetarder

SpecElem == InitElem /\ [][NextElem]_vars

InitBasis ==
    /\ M \in BasisMatrices
    /\ cos_theta_i = R(1)
    /\ eta = R(1)
    /\ ext = <<>>
    /\ op = "none"
    /\ args = <<>>
    /\ result = <<>>

RotateStokesBasis ==
    /\ op = "none"
    /\ \E forward \in Axes :
        \E basis_current \in Bases(forward), basis_target \in Bases(forward) :
            /\ op' = "rotate_stokes_basis"
            /\ args' = <<forward, basis_current, basis_target>>
            /\ result' = rotate_stokes_basis(forward, basis_current, basis_target)
            /\ UNCHANGED <<M, cos_theta_i, eta, ext>>

RotateMuellerBasis ==
    /\ op = "none"
    /\ \E in_forward \in InForwards, out_forward \in OutForwards :
        \E in_basis_current \in QuadrantBases(in_forward),
           in_basis_target \in Bases(in_forward),
           out_basis_current \in DiagonalBases(out_forward),
           out_basis_target \in Bases(out_forward) :
            /\ op' = "rotate_mueller_basis"
            /\ args' = <<in_forward, in_basis_current, in_basis_target,
                         out_forward, out_basis_current, out_basis_target>>
            /\ result' = rotate_mueller_basis(M, in_forward, in_basis_current,
                                              in_basis_target, out_forward,
                                              out_basis_current, out_basis_target)
            /\ UNCHANGED <<M, cos_theta_i, eta, ext>>

RotateMuellerBasisCollinear ==
    /\ op = "none"
    /\ \E forward \in Axes :
        \E basis_current \in Bases(forward), basis_target \in Bases(forward) :
            /\ op' = "rotate_mueller_basis_collinear"
            /\ args' = <<forward, basis_current, basis_target>>
            /\ result' = rotate_mueller_basis_collinear(M, forward, basis_current,
                                                        basis_target)
            /\ UNCHANGED <<M, cos_theta_i, eta, ext>>

NextBasis == RotateStokesBasis \/ RotateMuellerBasis \/ RotateMuellerBasisCollinear

SpecBasis == InitBasis /\ [][NextBasis]_vars

\* rotate_stokes_basis takes no matrix: its calls alone, under one M.
InitStokesBasis ==
    /\ M = Identity
    /\ cos_theta_i = R(1)
    /\ eta = R(1)
    /\ ext = <<>>
    /\ op = "none"
    /\ args = <<>>
    /\ result = <<>>

NextStokesBasis == RotateStokesBasis

SpecStokesBasis == InitStokesBasis /\ [][NextStokesBasis]_vars

InitFresnel ==
    /\ M = Identity
    /\ cos_theta_i \in Cosines
    /\ eta \in Etas
    /\ ext \in ExternalReturns(cos_theta_i, eta)
    /\ op = "none"
    /\ args = <<>>
    /\ result = <<>>

SpecularReflection ==
    /\ op = "none"
    /\ op' = "specular_reflection"
    /\ args' = <<cos_theta_i, eta>>
    /\ result' = specular_reflection(cos_theta_i, eta)
    /\ UNCHANGED <<M, cos_theta_i, eta, ext>>

SpecularTransmission ==
    /\ op = "none"
    /\ op' = "specular_transmission"
    /\ args' = <<cos_theta_i, eta>>
    /\ result' = specular_transmission(cos_theta_i, eta)
    /\ UNCHANGED <<M, cos_theta_i, eta, ext>>

NextFresnel == SpecularReflection \/ SpecularTransmission

SpecFresnel == InitFresnel /\ [][NextFresnel]_vars

(* ------------------------------ claims -------------------------------- *)

\* alpha - theta
SubAng(a, t) == Ang(a[1] * t[1] + a[2] * t[2], a[2] * t[1] - a[1] * t[2])

ZeroAngle == <<1, 0>>

Deg45 == <<1, 1>>

\* Linearly polarized light at angle alpha: [1, cos 2alpha, sin 2alpha, 0].
LinearStokes(alpha) ==
    LET sc == sincos(TwiceAng(alpha))
    IN  Stokes(<<R(1), sc[2], sc[1], R(0)>>)

\* Stokes vectors spanning the four components, and two mixed ones.
StokesVectors ==
    {StokesInt(1, 0, 0, 0), StokesInt(1, 1, 0, 0), StokesInt(1, 0, 1, 0),
     StokesInt(1, 0, 0, 1), StokesInt(2, -1, 1, 1), StokesInt(3, 1, 2, -2)}

\* Fully and partially polarized light with all four components non-zero.
MixedStokes == {StokesInt(2, -1, 1, 1), StokesInt(3, 1, 2, -2)}

\* C1: rotate_mueller_basis re-expresses M in the target bases: with R_in and
\* R_out the rotate_stokes_basis matrices of the input and output frames, the
\* returned M' satisfies M' * (R_in * s) = R_out * (M * s) for every Stokes
\* vector s, and M' = R_out * M * transpose(R_in).
C1_MuellerBasisEquivalent ==
    op = "rotate_mueller_basis" =>
        LET R_in == rotate_stokes_basis(args[1], args[2], args[3])
            R_out == rotate_stokes_basis(args[4], args[5], args[6])
        IN  /\ \A s \in MixedStokes :
                MatMul(result, MatMul(R_in, s)) = MatMul(R_out, MatMul(M, s))
            /\ MatMul(result, R_in) = MatMul(R_out, M)
            /\ result = MatMul(R_out, MatMul(M, transpose(R_in)))

C1_Witness ==
    /\ op = "rotate_mueller_basis"
    /\ args = <<<<0,0,-1>>, <<1,1,0>>, <<2,-1,0>>, <<1,0,0>>, <<0,1,1>>, <<0,2,1>>>>
    /\ M = Dense(1, MaxEntry)
    /\ result # M
    /\ rotate_stokes_basis(args[1], args[2], args[3])
         # rotate_stokes_basis(args[4], args[5], args[6])
    /\ MatMul(result, MatMul(rotate_stokes_basis(args[1], args[2], args[3]),
                             StokesInt(2, -1, 1, 1)))
         = MatMul(rotate_stokes_basis(args[4], args[5], args[6]),
                  MatMul(M, StokesInt(2, -1, 1, 1)))

\* C2: rotate_stokes_basis returns rotator(theta), theta the unsigned angle
\* between the normalized bases, negated exactly when forward . (current x
\* target) < 0: this is the rotator of the signed angle from current to target
\* about forward.  With forward = [0,0,1], current = [1,0,0] and target along
\* (1,-1,0), the matrix takes [1,1,0,0] to [1,0,1,0].
C2_StokesBasisSignedAngle ==
    op = "rotate_stokes_basis" =>
        LET forward == args[1]
            current == args[2]
            target == args[3]
            triple == dot(forward, cross(current, target))
            unsigned == unit_angle(normalize(current), normalize(target))
        IN  /\ unsigned[2] >= 0
            /\ result = rotator(IF triple < 0 THEN NegAng(unsigned) ELSE unsigned)
            /\ result = rotator(Ang(dot(current, target), triple))
            /\ (forward = <<0,0,1>> /\ current = <<1,0,0>> /\ target = <<1,-1,0>>)
                 => MatMul(result, StokesInt(1, 1, 0, 0)) = StokesInt(1, 0, 1, 0)

C2_Witness ==
    /\ op = "rotate_stokes_basis"
    /\ args = <<<<0,0,1>>, <<1,0,0>>, <<1,-1,0>>>>
    /\ MatMul(result, StokesInt(1, 1, 0, 0)) = StokesInt(1, 0, 1, 0)

\* C3: rotator(theta) turns the reference frame counter-clockwise by theta, so
\* light polarized linearly at alpha appears at alpha - theta; the intensity
\* and circular components of any Stokes vector are unchanged; rotator(45 deg)
\* takes [1,1,0,0] to [1,0,-1,0].
C3_RotatorConvention ==
    op = "rotator" =>
        LET theta == args[1]
        IN  /\ \A alpha \in Angles :
                MatMul(result, LinearStokes(alpha)) = LinearStokes(SubAng(alpha, theta))
            /\ \A s \in StokesVectors :
                LET r == MatMul(result, s)
                IN  r[1][1] = s[1][1] /\ r[4][1] = s[4][1]
            /\ theta = Deg45
                 => MatMul(result, StokesInt(1, 1, 0, 0)) = StokesInt(1, 0, -1, 0)

C3_Witness ==
    /\ op = "rotator"
    /\ args = <<Deg45>>
    /\ MatMul(result, StokesInt(1, 1, 0, 0)) = StokesInt(1, 0, -1, 0)

\* C4: rotations round-trip: rotator(theta) * rotator(-theta) = Identity,
\* rotated_element(0, M) = M, and rotating an element by theta and then by
\* -theta gives M back.
C4_RotationRoundTrip ==
    /\ op = "rotator" =>
        /\ MatMul(result, rotator(NegAng(args[1]))) = Identity
        /\ MatMul(rotator(NegAng(args[1])), result) = Identity
    /\ op = "rotated_element" =>
        /\ (args[1] = ZeroAngle => result = M)
        /\ rotated_element(NegAng(args[1]), result) = M

C4_Witness ==
    /\ op = "rotated_element"
    /\ args = <<<<2, 1>>>>
    /\ M = Dense(1, 1)
    /\ result # M
    /\ rotated_element(NegAng(args[1]), result) = M

\* C5: reverse is an involution, reverse(reverse(M)) = M, and reverse(M) keeps
\* rows 0 and 1 of M and negates rows 2 and 3.
C5_ReverseInvolution ==
    op = "reverse" =>
        /\ reverse(result) = M
        /\ \A i \in Idx, j \in Idx :
              result[i][j] = IF i <= 2 THEN M[i][j] ELSE Neg(M[i][j])

C5_Witness ==
    /\ op = "reverse"
    /\ M = Dense(1, 1)
    /\ result # M
    /\ reverse(result) = M

\* C6: rotate_stokes_basis(w, b, b) is the identity matrix for every unit w and
\* every unit basis b orthogonal to w.
C6_SameBasisIdentity ==
    (op = "rotate_stokes_basis" /\ args[2] = args[3]) => result = Identity

C6_Witness ==
    /\ op = "rotate_stokes_basis"
    /\ args = <<<<0,-1,0>>, <<2,0,1>>, <<2,0,1>>>>
    /\ result = Identity

\* C10: rotate_mueller_basis_collinear is rotate_mueller_basis with the same
\* frame on both sides, which is R * M * transpose(R) for the one matrix
\* R = rotate_stokes_basis(forward, basis_current, basis_target).
C10_CollinearSpecialization ==
    op = "rotate_mueller_basis_collinear" =>
        LET Rm == rotate_stokes_basis(args[1], args[2], args[3])
        IN  /\ result = rotate_mueller_basis(M, args[1], args[2], args[3],
                                             args[1], args[2], args[3])
            /\ result = MatMul(Rm, MatMul(M, transpose(Rm)))

C10_Witness ==
    /\ op = "rotate_mueller_basis_collinear"
    /\ args = <<<<1,0,0>>, <<0,1,0>>, <<0,2,1>>>>
    /\ M = Dense(1, MaxEntry)
    /\ result # M
    /\ result = rotate_mueller_basis(M, args[1], args[2], args[3],
                                     args[1], args[2], args[3])

\* |z|^2 of a complex amplitude.
Magnitude2(z) == Add(Sqr(z[1]), Sqr(z[2]))

AllFinite(A) == \A i \in Idx, j \in Idx : IsFinite(A[i][j])

\* C7: in specular_reflection, whenever c = sqrt(r_s * r_p) is 0 (r_s = 0 or
\* r_p = 0) the phase terms are forced to 0 whatever sincos_arg_diff returned,
\* NaN included: entries (2,2), (2,3), (3,2), (3,3) are exactly 0, no entry is
\* indeterminate, and the upper-left block is [[a,b],[b,a]] with
\* a = (r_s + r_p)/2, b = (r_s - r_p)/2.  When c # 0 the phase terms pass
\* through unmodified.
C7_ReflectionPhaseClamp ==
    op = "specular_reflection" =>
        LET r_s == Magnitude2(ext.a_s)
            r_p == Magnitude2(ext.a_p)
            c == SqrtF(Mul(r_s, r_p))
            a == Div(Add(r_s, r_p), R(2))
            b == Div(Sub(r_s, r_p), R(2))
        IN  /\ (c = R(0)) <=> (r_s = R(0) \/ r_p = R(0))
            /\ result[1] = <<a, b, R(0), R(0)>>
            /\ result[2] = <<b, a, R(0), R(0)>>
            /\ c = R(0) =>
                 /\ result[3] = <<R(0), R(0), R(0), R(0)>>
                 /\ result[4] = <<R(0), R(0), R(0), R(0)>>
                 /\ AllFinite(result)
            /\ c # R(0) =>
                 /\ result[3] = <<R(0), R(0), Mul(c, ext.cos_delta), Mul(c, ext.sin_delta)>>
                 /\ result[4] = <<R(0), R(0), Neg(Mul(c, ext.sin_delta)), Mul(c, ext.cos_delta)>>

C7_Witness ==
    /\ op = "specular_reflection"
    /\ ext.a_s = <<R(0), R(0)>>
    /\ ext.a_p = <<Frac(-3, 5), Frac(4, 5)>>
    /\ IsNaN(ext.sin_delta) /\ IsNaN(ext.cos_delta)
    /\ result = <<<<Half, Neg(Half), R(0), R(0)>>,
                  <<Neg(Half), Half, R(0), R(0)>>,
                  <<R(0), R(0), R(0), R(0)>>,
                  <<R(0), R(0), R(0), R(0)>>>>

\* C8: in specular_transmission, whenever |cos_theta_i| is below 1e-8
\* (cos_theta_i = 0 included) the unit-conversion factor is 0 and, the Fresnel
\* outputs being finite, every entry of the matrix is 0; whenever it is above,
\* factor = -eta_it * (cos_theta_t / cos_theta_i) and the matrix is
\* [[a,b,0,0],[b,a,0,0],[0,0,c,0],[0,0,0,c]] with a = factor*(t_s+t_p)/2,
\* b = factor*(t_s-t_p)/2, c = factor*sqrt(t_s*t_p).
C8_TransmissionFactor ==
    op = "specular_transmission" =>
        LET factor == conversion_factor(cos_theta_i, ext.cos_theta_t, ext.eta_it)
            t_s == Sqr(Add(ext.a_s[1], R(1)))
            t_p == Sqr(Mul(Sub(R(1), ext.a_p[1]), ext.eta_ti))
            a == Div(Mul(factor, Add(t_s, t_p)), R(2))
            b == Div(Mul(factor, Sub(t_s, t_p)), R(2))
            c == Mul(factor, SqrtF(Mul(t_s, t_p)))
        IN  /\ LtF(AbsF(cos_theta_i), Threshold) =>
                 /\ factor = R(0)
                 /\ \A i \in Idx, j \in Idx : result[i][j] = R(0)
            /\ GtF(AbsF(cos_theta_i), Threshold) =>
                 /\ factor = Neg(Div(Mul(ext.eta_it, ext.cos_theta_t), cos_theta_i))
                 /\ result = <<<<a, b, R(0), R(0)>>,
                               <<b, a, R(0), R(0)>>,
                               <<R(0), R(0), c, R(0)>>,
                               <<R(0), R(0), R(0), c>>>>

C8_Witness ==
    /\ op = "specular_transmission"
    /\ cos_theta_i = R(0)
    /\ ext.cos_theta_t = R(-1)
    /\ ext.a_s = <<Frac(-1, 5), R(0)>>
    /\ \A i \in Idx, j \in Idx : result[i][j] = R(0)

\* C9: specular_reflection(cos_theta_i = 1, eta = 1.5), fresnel_polarized
\* returning amplitudes of magnitude (eta-1)/(eta+1) for s and p, returns a
\* matrix whose (0,0) entry is ((eta-1)/(eta+1))^2 = 1/25 and whose (0,1) and
\* (1,0) entries are 0.
C9_NormalIncidenceReflectance ==
    (op = "specular_reflection" /\ cos_theta_i = R(1) /\ eta = Frac(3, 2)) =>
        /\ result[1][1] = Sqr(Div(Sub(eta, R(1)), Add(eta, R(1))))
        /\ result[1][1] = Frac(1, 25)
        /\ result[1][2] = R(0)
        /\ result[2][1] = R(0)

C9_Witness ==
    /\ op = "specular_reflection"
    /\ cos_theta_i = R(1)
    /\ eta = Frac(3, 2)
    /\ ext.a_s = <<Frac(-1, 5), R(0)>>
    /\ ext.a_p = <<Frac(3, 25), Frac(4, 25)>>
    /\ result[1][1] = Frac(1, 25)
    /\ result[1][2] = R(0)

\* The phase difference pi of a half-wave plate.
Pi == <<-1, 0>>

\* C11: linear_retarder(phase) leaves components 0 and 1 of a Stokes vector
\* unchanged and acts on components (2, 3) by the block [[cos(phase),
\* -sin(phase)], [sin(phase), cos(phase)]]; the half-wave plate
\* linear_retarder(pi) takes [1,0,1,0] to [1,0,-1,0], and applied twice it
\* returns every Stokes vector (its square is the identity).
C11_HalfWavePlate ==
    op = "linear_retarder" =>
        LET phase == args[1]
            sn == sincos(phase)[1]
            cs == sincos(phase)[2]
        IN  /\ \A s \in StokesVectors :
                LET r == MatMul(result, s)
                IN  /\ r[1][1] = s[1][1]
                    /\ r[2][1] = s[2][1]
                    /\ r[3][1] = Sub(Mul(cs, s[3][1]), Mul(sn, s[4][1]))
                    /\ r[4][1] = Add(Mul(sn, s[3][1]), Mul(cs, s[4][1]))
            /\ \A j \in Idx : MatMul(result, M)[1][j] = M[1][j]
                              /\ MatMul(result, M)[2][j] = M[2][j]
            /\ phase = Pi =>
                  /\ MatMul(result, StokesInt(1, 0, 1, 0)) = StokesInt(1, 0, -1, 0)
                  /\ MatMul(result, linear_retarder(Pi)) = Identity
                  /\ \A s \in StokesVectors : MatMul(result, MatMul(result, s)) = s

C11_Witness ==
    /\ op = "linear_retarder"
    /\ args = <<Pi>>
    /\ MatMul(result, StokesInt(1, 0, 1, 0)) = StokesInt(1, 0, -1, 0)
    /\ MatMul(result, MatMul(result, StokesInt(3, 1, 2, -2))) = StokesInt(3, 1, 2, -2)
    /\ result # Identity

\* -v
NegVec(v) == <<-v[1], -v[2], -v[3]>>

\* C12: basis changes about one propagation direction compose: for every w
\* and all bases a, b, c orthogonal to w, rotate_stokes_basis(w, b, c) *
\* rotate_stokes_basis(w, a, b) = rotate_stokes_basis(w, a, c); hence
\* rotate_stokes_basis(w, b, a) is the inverse, and the transpose, of
\* rotate_stokes_basis(w, a, b); and for the antiparallel target b = -a
\* (angle pi, zero triple product, no sign flip) the matrix is the identity.
C12_BasisChangesCompose ==
    op = "rotate_stokes_basis" =>
        LET w == args[1]
            a == args[2]
            b == args[3]
            back == rotate_stokes_basis(w, b, a)
        IN  /\ \A c \in Bases(w) :
                MatMul(rotate_stokes_basis(w, b, c), result)
                    = rotate_stokes_basis(w, a, c)
            /\ MatMul(back, result) = Identity
            /\ MatMul(result, back) = Identity
            /\ back = transpose(result)
            /\ b = NegVec(a) =>
                  /\ unit_angle(normalize(a), normalize(b)) = Pi
                  /\ dot(w, cross(a, b)) = 0
                  /\ result = Identity

C12_Witness ==
    /\ op = "rotate_stokes_basis"
    /\ args = <<<<0,0,1>>, <<1,0,0>>, <<1,1,0>>>>
    /\ result # Identity
    /\ rotate_stokes_basis(args[1], args[3], <<-1,2,0>>) # Identity
    /\ rotate_stokes_basis(args[1], args[2], <<-1,2,0>>) # result
    /\ MatMul(rotate_stokes_basis(args[1], args[3], <<-1,2,0>>), result)
         = rotate_stokes_basis(args[1], args[2], <<-1,2,0>>)
    /\ rotate_stokes_basis(args[1], args[3], args[2]) = transpose(result)
    /\ rotate_stokes_basis(args[1], args[3], NegVec(args[3])) = Identity

====
